---- MODULE Spec2Model ----
(***************************************************************************)
(* A model of the OpenRouter conversational agent: the ConversationManager *)
(* message store (src/src/conversation.py), the tool dispatch of           *)
(* ToolManager (src/src/tool_manager.py) and the bounded tool-calling loop *)
(* of OpenRouterAgent.chat (src/src/main.py).                              *)
(*                                                                         *)
(* Texts are sequences of tokens, so that an f-string is a concatenation   *)
(* and a prefix can be recognised.  Python's None is the text NoneText,    *)
(* which no collaborator supplies as a real text.  A key that a message    *)
(* dict does not have is the string Absent (name, tool_call_id) or the     *)
(* empty sequence (tool_calls).                                            *)
(***************************************************************************)
EXTENDS Integers, Sequences, FiniteSets, TLC

VARIABLES
  system_prompt,        \* ConversationManager.system_prompt
  messages,             \* ConversationManager.messages
  tools,                \* ToolManager.tools: the registered tool names
  sink_faulty,          \* whether writes to conversation.log can fail
  pc,                   \* where the agent is: idle, loop, await, tools, done, raised
  iterations,           \* chat: iterations
  final_response_text,  \* chat: final_response_text (the value returned at done)
  messages_to_send,     \* chat: messages_to_send of the latest request
  response,             \* chat: response of the latest request
  call_idx,             \* process_tool_calls: position in message.tool_calls
  executed_tool,        \* process_tool_calls: executed_tool
  requests,             \* number of requests this chat call sent to the collaborator
  only_tool_replies,    \* every reply of this chat call carried parseable tool calls
  snapshot,             \* a list a caller got from get_messages()
  inject_input,         \* _inject_tool_instructions: the messages argument
  inject_output,        \* _inject_tool_instructions: the list it returned
  inject_count,         \* how many times it has been applied
  files,                \* the *.py files of the tools directory, in glob order
  file_idx,             \* load_tools: position in py_files
  load_pc,              \* load_tools: loading, returned or raised
  tool_table,           \* ToolManager.tools: name -> function object
  tool_schemas,         \* ToolManager.tool_schemas
  warnings,             \* the files whose "Error loading tool" line was printed
  dispatched            \* the function object the latest execute_tool called

storeVars == <<system_prompt, messages>>
chatVars == <<pc, iterations, final_response_text, messages_to_send, response,
              call_idx, executed_tool, requests, only_tool_replies>>
agentVars == <<system_prompt, messages, tools, sink_faulty, chatVars, snapshot>>
injectVars == <<inject_input, inject_output, inject_count>>
loadVars == <<files, file_idx, load_pc, tool_table, tool_schemas, warnings,
              dispatched>>
vars == <<system_prompt, messages, tools, sink_faulty, pc, iterations,
          final_response_text, messages_to_send, response, call_idx,
          executed_tool, requests, only_tool_replies, snapshot,
          injectVars, loadVars>>

---------------------------------------------------------------------------
(* Bounds of the model.                                                    *)

\* the longest tool_calls list the collaborator returns
MaxCalls == 2
\* how far from the plain case (see Irregular) the tool calls that a store
\* comes to hold may be, summed over its assistant messages
MaxIrregular == 2
\* a chat call starts only while the store holds at most this many messages
MaxStart == 3
\* the longest list a caller builds from a get_messages() result
MaxSnapshot == 2

(* Program constants.                                                      *)

max_tool_iterations == 5

---------------------------------------------------------------------------
(* Texts.                                                                  *)

NoneText == <<"<None>">>
EmptyText == <<"">>
Absent == "<absent>"

DefaultSystemPrompt == <<"You are a helpful AI assistant with access to various tools.">>
Prompts == {DefaultSystemPrompt, <<"Be terse.">>}
UserTexts == {<<"what is 2+3?">>}
ReplyTexts == {<<"5">>, NoneText}

MaxIterationsText == <<"Tool execution loop exceeded maximum iterations.">>

\* str(e) of the exceptions that can be in flight
ApiErrorText == <<"OpenRouter API error: ", "Connection error.">>
JsonErrorText == <<"Expecting property name enclosed in double quotes">>
LogErrorText == <<"[Errno 28] No space left on device">>
HandlerErrorText == <<"missing 1 required positional argument: 'b'">>
NoneLenText == <<"object of type 'NoneType' has no len()">>

\* a chat that hands the content back as it is, None included
OrEmptyKeepsNone(t) == t

\* `x or ""` for an optional text
OrEmpty(t) == IF t = NoneText \/ t = EmptyText THEN EmptyText ELSE t

\* A Python value a tool hands back: a number or a text.
IntVal(n) == [type |-> "int", int |-> n, text |-> EmptyText]
StrVal(t) == [type |-> "str", int |-> 0, text |-> t]

\* str(result): a number prints as its digits, a text is itself
Str(v) == IF v.type = "int" THEN <<ToString(v.int)>> ELSE v.text

---------------------------------------------------------------------------
(* Exceptions: a class and str(e).  Every class here derives from          *)
(* Exception, as do all errors the collaborators and handlers raise.       *)

Parent(cls) ==
  CASE cls = "JSONDecodeError" -> "ValueError"
    [] cls = "ValueError" -> "Exception"
    [] cls = "TypeError" -> "Exception"
    [] cls = "OSError" -> "Exception"
    [] cls = "ImportError" -> "Exception"
    [] OTHER -> "BaseException"

RECURSIVE IsInstance(_, _)
IsInstance(cls, base) ==
  IF cls = base THEN TRUE
  ELSE IF cls = "BaseException" THEN FALSE
  ELSE IsInstance(Parent(cls), base)

Exc(cls, text) == [class |-> cls, text |-> text]

---------------------------------------------------------------------------
(* Messages of the store: the dicts of conversation.py, with one field per *)
(* key any of them has.                                                    *)

AbsentId == <<"<absent>">>

Msg(role, content, name, id, calls) ==
  [role |-> role, content |-> content, name |-> name,
   tool_call_id |-> id, tool_calls |-> calls]

SystemMsg(p) == Msg("system", p, Absent, AbsentId, <<>>)

\* a reset that goes back to the prompt of the constructor
reset_conversation_default(prompt) == <<SystemMsg(DefaultSystemPrompt)>>

\* ConversationManager.reset_conversation: the new value of self.messages
reset_conversation(prompt) == <<SystemMsg(prompt)>>

\* an add_user_message that puts the message in front
add_user_message_front(msgs, content) ==
  <<Msg("user", content, Absent, AbsentId, <<>>)>> \o msgs

\* an add_user_message that appends the message twice
add_user_message_twice(msgs, content) ==
  Append(Append(msgs, Msg("user", content, Absent, AbsentId, <<>>)),
         Msg("user", content, Absent, AbsentId, <<>>))

\* ConversationManager.add_user_message
add_user_message(msgs, content) ==
  Append(msgs, Msg("user", content, Absent, AbsentId, <<>>))

\* a test that takes an empty tool_calls list for tool calls
HasToolCallsNotNone(message) == ~message.tool_calls_none

\* a reply's tool_calls is truthy: neither None nor an empty list
HasToolCalls(message) ==
  ~message.tool_calls_none /\ Len(message.tool_calls) > 0

\* an add_assistant_message that drops a message with neither text nor calls
add_assistant_message_unless_empty(msgs, message) ==
  IF message.content = NoneText /\ ~HasToolCalls(message) THEN msgs
  ELSE Append(msgs,
              Msg(message.role, message.content, Absent, AbsentId,
                  IF HasToolCalls(message)
                    THEN [i \in 1..Len(message.tool_calls) |->
                            [id |-> message.tool_calls[i].id,
                             type |-> message.tool_calls[i].type,
                             name |-> message.tool_calls[i].name,
                             arguments |-> message.tool_calls[i].arguments]]
                    ELSE <<>>))

\* ConversationManager.add_assistant_message
add_assistant_message(msgs, message) ==
  Append(msgs,
         Msg(message.role, message.content, Absent, AbsentId,
             IF HasToolCalls(message)
               THEN [i \in 1..Len(message.tool_calls) |->
                       [id |-> message.tool_calls[i].id,
                        type |-> message.tool_calls[i].type,
                        name |-> message.tool_calls[i].name,
                        arguments |-> message.tool_calls[i].arguments]]
               ELSE <<>>))

\* an add_tool_result with its first two arguments swapped
add_tool_result_swapped(msgs, tool_call_id, tool_name, result) ==
  Append(msgs, Msg("tool", Str(result), tool_call_id[1], <<tool_name>>, <<>>))

\* ConversationManager.add_tool_result
add_tool_result(msgs, tool_call_id, tool_name, result) ==
  Append(msgs, Msg("tool", Str(result), tool_name, tool_call_id, <<>>))

(* get_messages returns self.messages.copy(): a new list whose elements    *)
(* are the store's own dicts.  An element of such a list is a reference to *)
(* the store's i-th dict (shared) or a dict the store does not hold.       *)

NoMsg == Msg("", EmptyText, Absent, AbsentId, <<>>)
Ref(i) == [shared |-> TRUE, idx |-> i, val |-> NoMsg]
Own(m) == [shared |-> FALSE, idx |-> 0, val |-> m]

get_messages(msgs) == [i \in 1..Len(msgs) |-> Ref(i)]

\* the dicts a list of references denotes, read through the live store
Contents(list, msgs) ==
  [i \in 1..Len(list) |->
     IF list[i].shared THEN msgs[list[i].idx] ELSE list[i].val]

---------------------------------------------------------------------------
(* The tool registry and the dispatch of one call.                         *)

\* the names ToolManager.tools holds once load_tools has run
LoadedTools == {"add_numbers"}
\* a name the collaborator may ask for that no tool file defines
UnknownTool == "nope"

\* the arguments texts the collaborator sends
FullArgs == <<"{\"a\": 2, \"b\": 3}">>
PartialArgs == <<"{\"a\": 2}">>
BadArgs == <<"{a: 2">>

\* a parser that accepts every arguments text
JsonValidLenient(text) == TRUE

\* json.loads of an arguments text: the parsed object, or JSONDecodeError
JsonValid(text) == text \in {FullArgs, PartialArgs}
JsonLoads(text) ==
  CASE text = FullArgs -> [a |-> 2, b |-> 3]
    [] text = PartialArgs -> [a |-> 2]
    [] OTHER -> [a |-> 0]

Returned(v) == [raised |-> FALSE, value |-> v, exc |-> Exc("", EmptyText)]
Raised(e) == [raised |-> TRUE, value |-> StrVal(EmptyText), exc |-> e]

\* tools/math_tools.py add_numbers(**arguments): a + b, or the TypeError of
\* a call that lacks a parameter
add_numbers(arguments) ==
  IF DOMAIN arguments = {"a", "b"}
    THEN Returned(IntVal(arguments.a + arguments.b))
    ELSE Raised(Exc("TypeError", HandlerErrorText))

\* ToolManager.execute_tool
execute_tool(registry, tool_name, arguments) ==
  IF tool_name \notin registry
    THEN Raised(Exc("ValueError", <<"Tool ", tool_name, " not found">>))
    ELSE LET r == add_numbers(arguments)
         IN IF r.raised /\ IsInstance(r.exc.class, "Exception")
              THEN Returned(StrVal(<<"Error executing tool ", tool_name, ": ">>
                                   \o r.exc.text))
              ELSE r

\* ToolManager.get_tool_instruction_json: None when no tool is loaded
get_tool_instruction_json(registry) ==
  IF registry = {} THEN NoneText
  ELSE <<"{\"tool_call_format\": ..., \"tools\": [...]}">>

---------------------------------------------------------------------------
(* Tool discovery: ToolManager.load_tools over the *.py files of the tools *)
(* directory.  A file is skipped for its name, fails when it is executed,  *)
(* or yields a module whose members are looked through.                    *)

\* at most this many *.py files in the tools directory
MaxFiles == 2

\* the function objects the modules can hold: two definitions of
\* add_numbers from different files, one more tool, and the decorator that
\* every tool file imports, a function without tool_schema
Functions ==
  { [id |-> "math_tools.add_numbers", name |-> "add_numbers",
     tool_schema |-> TRUE],
    [id |-> "extra_tools.add_numbers", name |-> "add_numbers",
     tool_schema |-> TRUE],
    [id |-> "utility_tools.to_uppercase", name |-> "to_uppercase",
     tool_schema |-> TRUE],
    [id |-> "tool_manager.tool", name |-> "tool", tool_schema |-> FALSE] }

\* the member names, in the order inspect.getmembers sorts them
MemberNames == <<"add_numbers", "to_uppercase", "tool">>
ToolNames == {MemberNames[i] : i \in 1..Len(MemberNames)}

\* a module namespace binds a name once
Modules ==
  {m \in SUBSET Functions : \A f, g \in m : f.name = g.name => f = g}

\* inspect.getmembers(module): the members sorted by name
getmembers(module) ==
  LET names == SelectSeq(MemberNames,
                         LAMBDA n : \E f \in module : f.name = n)
  IN [i \in 1..Len(names) |-> CHOOSE f \in module : f.name = names[i]]

\* a *.py file: its name starts with "__", or executing it raises
\* ImportError, or it yields the module
ToolFiles == [kind : {"tool", "dunder", "broken"}, module : Modules]

RECURSIVE FileListsOf(_)
FileListsOf(n) ==
  IF n = 0 THEN {<<>>}
  ELSE LET shorter == FileListsOf(n - 1)
       IN shorter \cup {Append(l, f) : l \in {s \in shorter : Len(s) = n - 1},
                                        f \in ToolFiles}
\* what glob("*.py") can return
FileLists == FileListsOf(MaxFiles)

\* a name that self.tools does not hold
Missing == "<missing>"
\* ToolManager.__init__: self.tools = {}
EmptyTable == [n \in ToolNames |-> Missing]

\* a registration that keeps the function a name already has
SetItemIfNew(table, name, obj) ==
  IF table[name] = Missing THEN [table EXCEPT ![name] = obj] ELSE table

\* self.tools[name] = obj
SetItem(table, name, obj) == [table EXCEPT ![name] = obj]

\* obj.tool_schema, which the decorator built from the function
ToolSchema(obj) == [name |-> obj.name, function |-> obj.id]

\* the loop over inspect.getmembers(module) of _load_tool_from_file
RECURSIVE RegisterMembers(_, _, _)
RegisterMembers(table, schemas, members) ==
  IF members = <<>> THEN [tools |-> table, tool_schemas |-> schemas]
  ELSE LET obj == Head(members)
       IN IF obj.tool_schema
            THEN RegisterMembers(SetItem(table, obj.name, obj.id),
                                 Append(schemas, ToolSchema(obj)),
                                 Tail(members))
            ELSE RegisterMembers(table, schemas, Tail(members))

\* a handler that lets the error of a file escape
LoadCatchesValueError == "ValueError"

\* the except clause of _load_tool_from_file
LoadCatches == "Exception"

\* one iteration of the loop of load_tools: the name test and the whole of
\* _load_tool_from_file
LoadToolFromFile ==
  /\ load_pc = "loading"
  /\ file_idx <= Len(files)
  /\ LET file == files[file_idx]
         r == RegisterMembers(tool_table, tool_schemas, getmembers(file.module))
     IN CASE file.kind = "dunder" ->
               UNCHANGED <<load_pc, tool_table, tool_schemas, warnings>>
          [] file.kind = "broken" ->
               IF IsInstance("ImportError", LoadCatches)
                 THEN /\ warnings' = warnings \cup {file_idx}
                      /\ UNCHANGED <<load_pc, tool_table, tool_schemas>>
                 ELSE /\ load_pc' = "raised"
                      /\ UNCHANGED <<tool_table, tool_schemas, warnings>>
          [] OTHER ->
               /\ tool_table' = r.tools
               /\ tool_schemas' = r.tool_schemas
               /\ UNCHANGED <<load_pc, warnings>>
  /\ file_idx' = file_idx + 1
  /\ UNCHANGED <<files, dispatched, agentVars, injectVars>>

\* load_tools: the loop over py_files is over
LoadToolsReturn ==
  /\ load_pc = "loading"
  /\ file_idx > Len(files)
  /\ load_pc' = "returned"
  /\ UNCHANGED <<files, file_idx, tool_table, tool_schemas, warnings,
                 dispatched, agentVars, injectVars>>

\* ToolManager.execute_tool: the function object it calls, or ValueError
ExecuteTool(tool_name) ==
  /\ load_pc = "returned"
  /\ dispatched' = IF tool_table[tool_name] = Missing THEN "ValueError"
                   ELSE tool_table[tool_name]
  /\ UNCHANGED <<files, file_idx, load_pc, tool_table, tool_schemas, warnings,
                 agentVars, injectVars>>

---------------------------------------------------------------------------
(* Instruction injection.                                                  *)

InstructionPrefix ==
  <<"When you decide a tool is required, respond with a tool call JSON payload that matches the following schema exactly:\n">>

\* an instruction message without the name that marks it
tool_instruction_system_message_unnamed(registry) ==
  Msg("system", InstructionPrefix \o get_tool_instruction_json(registry),
      Absent, AbsentId, <<>>)

\* OpenRouterAgent._tool_instruction_system_message (defined when the
\* instruction text is not None)
tool_instruction_system_message(registry) ==
  Msg("system", InstructionPrefix \o get_tool_instruction_json(registry),
      "tool_instructions", AbsentId, <<>>)

IsInstruction(msg) == msg.role = "system" /\ msg.name = "tool_instructions"

\* the position of the last system-role message, 0 when there is none
LastSystem(msgs) ==
  IF \E i \in 1..Len(msgs) : msgs[i].role = "system"
    THEN CHOOSE i \in 1..Len(msgs) :
           /\ msgs[i].role = "system"
           /\ \A j \in (i + 1)..Len(msgs) : msgs[j].role # "system"
    ELSE 0

\* the position of the first system-role message, 0 when there is none
FirstSystem(msgs) ==
  IF \E i \in 1..Len(msgs) : msgs[i].role = "system"
    THEN CHOOSE i \in 1..Len(msgs) :
           /\ msgs[i].role = "system"
           /\ \A j \in 1..(i - 1) : msgs[j].role # "system"
    ELSE 0

\* an injection that does not look for an instruction message already there
inject_tool_instructions_unchecked(registry, msgs) ==
  IF get_tool_instruction_json(registry) = NoneText THEN msgs
  ELSE LET k == FirstSystem(msgs)
           ins == tool_instruction_system_message(registry)
       IN IF k = 0 THEN <<ins>> \o msgs
          ELSE SubSeq(msgs, 1, k) \o <<ins>> \o SubSeq(msgs, k + 1, Len(msgs))

\* OpenRouterAgent._inject_tool_instructions
inject_tool_instructions(registry, msgs) ==
  IF get_tool_instruction_json(registry) = NoneText THEN msgs
  ELSE IF \E i \in 1..Len(msgs) : IsInstruction(msgs[i]) THEN msgs
  ELSE LET k == FirstSystem(msgs)
           ins == tool_instruction_system_message(registry)
       IN IF k = 0 THEN <<ins>> \o msgs
          ELSE SubSeq(msgs, 1, k) \o <<ins>> \o SubSeq(msgs, k + 1, Len(msgs))

---------------------------------------------------------------------------
(* What the completion collaborator can answer.                            *)

CallId(k) == <<"call_", ToString(k)>>

\* the (name, arguments) shapes of one requested call
CallShapes ==
  {<<"add_numbers", FullArgs>>, <<"add_numbers", PartialArgs>>,
   <<"add_numbers", BadArgs>>, <<UnknownTool, FullArgs>>}

\* the tool_calls lists of n calls; ids are unique within a message and are
\* not in position order
CallLists(n) ==
  {[i \in 1..n |-> [id |-> CallId(n + 1 - i), type |-> "function",
                    name |-> shape[i][1], arguments |-> shape[i][2]]] :
     shape \in [1..n -> CallShapes]}

Reply(content, none, calls) ==
  [role |-> "assistant", content |-> content,
   tool_calls_none |-> none, tool_calls |-> calls]

\* assistant messages without tool calls: tool_calls None or an empty list
PlainReplies ==
  {Reply(c, none, <<>>) : c \in ReplyTexts, none \in BOOLEAN}

\* assistant messages with tool calls, with or without a text
ToolReplies ==
  {Reply(c, FALSE, calls) :
     c \in ReplyTexts, calls \in UNION {CallLists(n) : n \in 1..MaxCalls}}

\* the value of chat's response before the first reply of a call
NoReply == [role |-> "", content |-> NoneText,
            tool_calls_none |-> TRUE, tool_calls |-> <<>>]

\* How far an assistant message with tool calls is from the plain case, one
\* call of add_numbers with both arguments and a text: one for every further
\* call, one for every call of another shape, one for a content of None.
Irregular(content, calls) ==
  (IF Len(calls) > 1 THEN Len(calls) - 1 ELSE 0)
  + Cardinality({i \in 1..Len(calls) :
                   <<calls[i].name, calls[i].arguments>> # <<"add_numbers", FullArgs>>})
  + (IF calls # <<>> /\ content = NoneText THEN 1 ELSE 0)

\* the same, summed over the messages of a store
RECURSIVE Irregularity(_)
Irregularity(msgs) ==
  IF msgs = <<>> THEN 0
  ELSE Irregularity(Tail(msgs))
       + Irregular(Head(msgs).content, Head(msgs).tool_calls)

\* the replies with tool calls that are at most b from the plain case
ToolRepliesWithin ==
  [b \in 0..MaxIrregular |->
     {r \in ToolReplies : Irregular(r.content, r.tool_calls) <= b}]

\* the replies the collaborator can give when the store is msgs: any reply
\* without tool calls, and the replies with tool calls that keep the store
\* within MaxIrregular
Replies(msgs) ==
  LET used == Irregularity(msgs)
  IN PlainReplies \cup
       (IF used <= MaxIrregular THEN ToolRepliesWithin[MaxIrregular - used] ELSE {})

---------------------------------------------------------------------------
(* The session log.  _append_log opens conversation.log for appending and  *)
(* writes; the open or the write can fail (OSError) when the sink is       *)
(* faulty.                                                                 *)

LogOutcomes == IF sink_faulty THEN BOOLEAN ELSE {TRUE}

\* _log_request, lines 141-147: for each message it takes len(content) of
\* msg.get('content', ''), which is None when the message has a content of
\* None, and len(None) raises TypeError
log_request_raises(msgs) == \E i \in 1..Len(msgs) : msgs[i].content = NoneText

---------------------------------------------------------------------------
(* OpenRouterAgent.chat, one action per step between two calls out.        *)

\* a chat that catches ValueError only
ChatCatchesValueError == "ValueError"

\* the class named by chat's except clause
ChatCatches == "Exception"

\* a process_tool_calls that catches TypeError only
ToolCatchesTypeError == "TypeError"

\* the class named by the except clause around execute_tool
ToolCatches == "Exception"

\* a loop test that is off by one
LoopContinuesInclusive(n) == n <= max_tool_iterations

\* the while condition of chat
LoopContinues(n) == n < max_tool_iterations

ErrorPrefix == <<"Error communicating with OpenRouter: ">>
ToolFailedPrefix == <<"Tool execution failed: ">>

\* an exception e leaves the try block of chat: the except clause turns it
\* into the returned text, or it leaves chat
ChatRaise(e) ==
  IF IsInstance(e.class, ChatCatches)
    THEN /\ final_response_text' = ErrorPrefix \o e.text
         /\ pc' = "done"
    ELSE /\ final_response_text' = final_response_text
         /\ pc' = "raised"

\* the try/except of process_tool_calls around one parsed call: the store
\* after it, and the exception that leaves it, if one does
DispatchToolCall(msgs, registry, tool_call) ==
  LET r == execute_tool(registry, tool_call.name, JsonLoads(tool_call.arguments))
  IN IF ~r.raised
       THEN [messages |-> add_tool_result(msgs, tool_call.id, tool_call.name, r.value),
             raised |-> FALSE, exc |-> r.exc]
     ELSE IF IsInstance(r.exc.class, ToolCatches)
       THEN [messages |-> add_tool_result(msgs, tool_call.id, tool_call.name,
                                          StrVal(ToolFailedPrefix \o r.exc.text)),
             raised |-> FALSE, exc |-> r.exc]
     ELSE [messages |-> msgs, raised |-> TRUE, exc |-> r.exc]

Idle == pc \in {"idle", "done", "raised"}

\* chat, lines 160-167: the user message is appended and the locals set
ChatBegin(user_input) ==
  /\ Idle
  /\ Len(messages) <= MaxStart
  /\ messages' = add_user_message(messages, user_input)
  /\ iterations' = 0
  /\ final_response_text' = EmptyText
  /\ messages_to_send' = <<>>
  /\ response' = NoReply
  /\ call_idx' = 0
  /\ executed_tool' = FALSE
  /\ requests' = 0
  /\ only_tool_replies' = TRUE
  /\ pc' = "loop"
  /\ UNCHANGED <<system_prompt, tools, sink_faulty, snapshot>>
  /\ UNCHANGED <<injectVars, loadVars>>

\* a loop step that writes the annotated list back to the store
LoopStepStoresInstruction ==
  /\ pc = "loop"
  /\ IF LoopContinues(iterations)
       THEN /\ iterations' = iterations + 1
            /\ messages_to_send' =
                 inject_tool_instructions(
                   tools, Contents(get_messages(messages), messages))
            /\ messages' = messages_to_send'
            /\ IF log_request_raises(messages_to_send')
                 THEN /\ ChatRaise(Exc("TypeError", NoneLenText))
                      /\ UNCHANGED requests
                 ELSE \E written \in LogOutcomes :
                        IF written
                          THEN /\ requests' = requests + 1
                               /\ pc' = "await"
                               /\ UNCHANGED final_response_text
                          ELSE /\ ChatRaise(Exc("OSError", LogErrorText))
                               /\ UNCHANGED requests
       ELSE /\ final_response_text' = MaxIterationsText
            /\ pc' = "done"
            /\ UNCHANGED <<iterations, messages_to_send, requests, messages>>
  /\ UNCHANGED <<system_prompt, tools, sink_faulty, response,
                 call_idx, executed_tool, only_tool_replies, snapshot>>
  /\ UNCHANGED <<injectVars, loadVars>>

\* chat, lines 170-178 and 193-194: the loop test; then the snapshot is
\* annotated, _log_request prints and logs it, and the request goes out; or
\* the else clause runs
LoopStep ==
  /\ pc = "loop"
  /\ IF LoopContinues(iterations)
       THEN /\ iterations' = iterations + 1
            /\ messages_to_send' =
                 inject_tool_instructions(
                   tools, Contents(get_messages(messages), messages))
            /\ IF log_request_raises(messages_to_send')
                 THEN /\ ChatRaise(Exc("TypeError", NoneLenText))
                      /\ UNCHANGED requests
                 ELSE \E written \in LogOutcomes :
                        IF written
                          THEN /\ requests' = requests + 1
                               /\ pc' = "await"
                               /\ UNCHANGED final_response_text
                          ELSE /\ ChatRaise(Exc("OSError", LogErrorText))
                               /\ UNCHANGED requests
       ELSE /\ final_response_text' = MaxIterationsText
            /\ pc' = "done"
            /\ UNCHANGED <<iterations, messages_to_send, requests>>
  /\ UNCHANGED <<system_prompt, messages, tools, sink_faulty, response,
                 call_idx, executed_tool, only_tool_replies, snapshot>>
  /\ UNCHANGED <<injectVars, loadVars>>

\* a chat that records the failure in the store before handling it
ModelFailsRecorded ==
  /\ pc = "await"
  /\ ChatRaise(Exc("Exception", ApiErrorText))
  /\ messages' = Append(messages, Msg("assistant", ApiErrorText, Absent, AbsentId, <<>>))
  /\ only_tool_replies' = FALSE
  /\ UNCHANGED <<system_prompt, tools, sink_faulty, iterations,
                 messages_to_send, response, call_idx, executed_tool,
                 requests, snapshot>>
  /\ UNCHANGED <<injectVars, loadVars>>

\* chat_completion raises Exception("OpenRouter API error: ..."), which the
\* except clause of chat, lines 196-199, handles
ModelFails ==
  /\ pc = "await"
  /\ ChatRaise(Exc("Exception", ApiErrorText))
  /\ only_tool_replies' = FALSE
  /\ UNCHANGED <<system_prompt, messages, tools, sink_faulty, iterations,
                 messages_to_send, response, call_idx, executed_tool,
                 requests, snapshot>>
  /\ UNCHANGED <<injectVars, loadVars>>

\* chat, lines 175-187: the reply is stored; without tool calls it ends the
\* loop, with tool calls process_tool_calls is entered
ModelReplies(r) ==
  /\ pc = "await"
  /\ response' = r
  /\ messages' = add_assistant_message(messages, r)
  /\ only_tool_replies' =
       (/\ only_tool_replies
        /\ HasToolCalls(r)
        /\ \A i \in 1..Len(r.tool_calls) : JsonValid(r.tool_calls[i].arguments))
  /\ IF ~HasToolCalls(r)
       THEN /\ final_response_text' = OrEmpty(r.content)
            /\ pc' = "done"
            /\ UNCHANGED <<call_idx, executed_tool>>
       ELSE /\ pc' = "tools"
            /\ call_idx' = 1
            /\ executed_tool' = FALSE
            /\ UNCHANGED final_response_text
  /\ UNCHANGED <<system_prompt, tools, sink_faulty, iterations,
                 messages_to_send, requests, snapshot>>
  /\ UNCHANGED <<injectVars, loadVars>>

\* process_tool_calls, lines 60-90: one turn of the for loop
ProcessToolCall ==
  /\ pc = "tools"
  /\ call_idx <= Len(response.tool_calls)
  /\ LET tool_call == response.tool_calls[call_idx]
     IN IF ~JsonValid(tool_call.arguments)
          THEN /\ ChatRaise(Exc("JSONDecodeError", JsonErrorText))
               /\ UNCHANGED <<messages, call_idx, executed_tool>>
          ELSE LET d == DispatchToolCall(messages, tools, tool_call)
               IN /\ messages' = d.messages
                  /\ executed_tool' = (IF d.raised THEN executed_tool ELSE TRUE)
                  /\ \E written \in LogOutcomes :
                       IF d.raised
                         THEN /\ ChatRaise(IF written THEN d.exc
                                           ELSE Exc("OSError", LogErrorText))
                              /\ UNCHANGED call_idx
                       ELSE IF written
                         THEN /\ call_idx' = call_idx + 1
                              /\ UNCHANGED <<pc, final_response_text>>
                       ELSE /\ ChatRaise(Exc("OSError", LogErrorText))
                            /\ UNCHANGED call_idx
  /\ UNCHANGED <<system_prompt, tools, sink_faulty, iterations,
                 messages_to_send, response, requests, only_tool_replies,
                 snapshot>>
  /\ UNCHANGED <<injectVars, loadVars>>

\* process_tool_calls, line 92, and chat, lines 187-191: the for loop is
\* exhausted and executed_tool is returned to chat
ProcessToolCallsReturn ==
  /\ pc = "tools"
  /\ call_idx > Len(response.tool_calls)
  /\ IF executed_tool
       THEN /\ pc' = "loop"
            /\ UNCHANGED final_response_text
       ELSE /\ final_response_text' = OrEmpty(response.content)
            /\ pc' = "done"
  /\ UNCHANGED <<system_prompt, messages, tools, sink_faulty, iterations,
                 messages_to_send, response, call_idx, executed_tool,
                 requests, only_tool_replies, snapshot>>
  /\ UNCHANGED <<injectVars, loadVars>>

\* the locals of a chat call that has returned are gone
ChatLocalsCleared ==
  /\ pc' = "idle"
  /\ iterations' = 0
  /\ final_response_text' = EmptyText
  /\ messages_to_send' = <<>>
  /\ response' = NoReply
  /\ call_idx' = 0
  /\ executed_tool' = FALSE
  /\ requests' = 0
  /\ only_tool_replies' = TRUE

\* a set_system_prompt that keeps the messages of the store
SetSystemPromptKeepsStore(prompt) ==
  /\ Idle
  /\ system_prompt' = prompt
  /\ pc' = "idle"
  /\ UNCHANGED <<messages, iterations, final_response_text, messages_to_send,
                 response, call_idx, executed_tool, requests,
                 only_tool_replies>>
  /\ UNCHANGED <<tools, sink_faulty, snapshot>>
  /\ UNCHANGED <<injectVars, loadVars>>

\* OpenRouterAgent.set_system_prompt (the /system command)
SetSystemPrompt(prompt) ==
  /\ Idle
  /\ system_prompt' = prompt
  /\ messages' = reset_conversation(prompt)
  /\ ChatLocalsCleared
  /\ UNCHANGED <<tools, sink_faulty, snapshot>>
  /\ UNCHANGED <<injectVars, loadVars>>

\* OpenRouterAgent.reset_conversation (the /reset command)
ResetConversation ==
  /\ Idle
  /\ messages' = reset_conversation(system_prompt)
  /\ ChatLocalsCleared
  /\ UNCHANGED <<system_prompt, tools, sink_faulty, snapshot>>
  /\ UNCHANGED <<injectVars, loadVars>>

\* no injection has been applied outside a chat call
InjectUnused ==
  /\ inject_input = <<>>
  /\ inject_output = <<>>
  /\ inject_count = 0

\* the tools directory has been scanned; its registry is the variable tools
LoadSettled ==
  /\ files = <<>>
  /\ file_idx = 1
  /\ load_pc = "returned"
  /\ tool_table = EmptyTable
  /\ tool_schemas = <<>>
  /\ warnings = {}
  /\ dispatched = "none"

\* the agent after OpenRouterAgent.__init__, whatever its registry and sink
AgentConstructed ==
  /\ system_prompt = DefaultSystemPrompt
  /\ messages = reset_conversation(DefaultSystemPrompt)
  /\ pc = "idle"
  /\ iterations = 0
  /\ final_response_text = EmptyText
  /\ messages_to_send = <<>>
  /\ response = NoReply
  /\ call_idx = 0
  /\ executed_tool = FALSE
  /\ requests = 0
  /\ only_tool_replies = TRUE
  /\ snapshot = <<>>

\* OpenRouterAgent.__init__ with a working log sink
Init ==
  /\ AgentConstructed
  /\ InjectUnused
  /\ LoadSettled
  /\ tools = LoadedTools
  /\ sink_faulty = FALSE

Next ==
  \/ \E u \in UserTexts : ChatBegin(u)
  \/ LoopStep
  \/ ModelFails
  \/ \E r \in Replies(messages) : ModelReplies(r)
  \/ ProcessToolCall
  \/ ProcessToolCallsReturn
  \/ \E p \in Prompts : SetSystemPrompt(p)
  \/ ResetConversation

Spec == Init /\ [][Next]_vars

---------------------------------------------------------------------------
(* The store on its own: any sequence of ConversationManager operations,   *)
(* and a caller that keeps a get_messages() result and changes it.         *)

\* the store holds at most this many messages
MaxStore == 3

StoreReplies ==
  {Reply(<<"5">>, TRUE, <<>>),
   Reply(NoneText, FALSE, <<[id |-> CallId(1), type |-> "function",
                             name |-> "add_numbers", arguments |-> FullArgs]>>)}
StoreResults == {IntVal(5)}
EditedText == <<"edited by the caller">>

\* a reset replaces the list of the store by a new list with a new dict: the
\* dicts of the old list live on only in the lists of callers
Detached(list, msgs) ==
  [i \in 1..Len(list) |->
     IF list[i].shared THEN Own(msgs[list[i].idx]) ELSE list[i]]

StoreRoom == pc = "idle" /\ Len(messages) < MaxStore

AddUserMessage(content) ==
  /\ StoreRoom
  /\ messages' = add_user_message(messages, content)
  /\ UNCHANGED <<system_prompt, tools, sink_faulty, chatVars, snapshot>>
  /\ UNCHANGED <<injectVars, loadVars>>

AddAssistantMessage(message) ==
  /\ StoreRoom
  /\ messages' = add_assistant_message(messages, message)
  /\ UNCHANGED <<system_prompt, tools, sink_faulty, chatVars, snapshot>>
  /\ UNCHANGED <<injectVars, loadVars>>

AddToolResult(tool_call_id, tool_name, result) ==
  /\ StoreRoom
  /\ messages' = add_tool_result(messages, tool_call_id, tool_name, result)
  /\ UNCHANGED <<system_prompt, tools, sink_faulty, chatVars, snapshot>>
  /\ UNCHANGED <<injectVars, loadVars>>

StoreReset ==
  /\ pc = "idle"
  /\ messages' = reset_conversation(system_prompt)
  /\ snapshot' = Detached(snapshot, messages)
  /\ UNCHANGED <<system_prompt, tools, sink_faulty, chatVars>>
  /\ UNCHANGED <<injectVars, loadVars>>

StoreSetSystemPrompt(prompt) ==
  /\ pc = "idle"
  /\ system_prompt' = prompt
  /\ messages' = reset_conversation(prompt)
  /\ snapshot' = Detached(snapshot, messages)
  /\ UNCHANGED <<tools, sink_faulty, chatVars>>
  /\ UNCHANGED <<injectVars, loadVars>>

\* the caller calls get_messages() and keeps the list
GetMessages ==
  /\ pc = "idle"
  /\ snapshot' = get_messages(messages)
  /\ UNCHANGED <<storeVars, tools, sink_faulty, chatVars>>
  /\ UNCHANGED <<injectVars, loadVars>>

\* the caller appends a dict of its own to its list
CallerAppends ==
  /\ pc = "idle"
  /\ Len(snapshot) < MaxSnapshot
  /\ snapshot' = Append(snapshot, Own(Msg("user", EditedText, Absent, AbsentId, <<>>)))
  /\ UNCHANGED <<storeVars, tools, sink_faulty, chatVars>>
  /\ UNCHANGED <<injectVars, loadVars>>

\* the caller deletes element i of its list
CallerRemoves(i) ==
  /\ pc = "idle"
  /\ i \in 1..Len(snapshot)
  /\ snapshot' = SubSeq(snapshot, 1, i - 1) \o SubSeq(snapshot, i + 1, Len(snapshot))
  /\ UNCHANGED <<storeVars, tools, sink_faulty, chatVars>>
  /\ UNCHANGED <<injectVars, loadVars>>

\* the caller assigns the content key of element i of its list: the dict
\* assigned to is the store's own when the element is one the copy shares
CallerSetsContent(i) ==
  /\ pc = "idle"
  /\ i \in 1..Len(snapshot)
  /\ IF snapshot[i].shared
       THEN /\ messages' = [messages EXCEPT ![snapshot[i].idx].content = EditedText]
            /\ UNCHANGED snapshot
       ELSE /\ snapshot' = [snapshot EXCEPT ![i].val.content = EditedText]
            /\ UNCHANGED messages
  /\ UNCHANGED <<system_prompt, tools, sink_faulty, chatVars>>
  /\ UNCHANGED <<injectVars, loadVars>>

Appends ==
  \/ \E c \in UserTexts : AddUserMessage(c)
  \/ \E m \in StoreReplies : AddAssistantMessage(m)
  \/ \E r \in StoreResults : AddToolResult(CallId(1), "add_numbers", r)

Resets ==
  \/ StoreReset
  \/ \E p \in Prompts : StoreSetSystemPrompt(p)

CallerChanges ==
  \/ CallerAppends
  \/ \E i \in 1..MaxSnapshot : CallerRemoves(i)
  \/ \E i \in 1..MaxSnapshot : CallerSetsContent(i)

NextStore ==
  \/ \E c \in UserTexts : AddUserMessage(c)
  \/ \E m \in StoreReplies : AddAssistantMessage(m)
  \/ \E r \in StoreResults : AddToolResult(CallId(1), "add_numbers", r)
  \/ StoreReset
  \/ \E p \in Prompts : StoreSetSystemPrompt(p)
  \/ GetMessages
  \/ CallerAppends
  \/ \E i \in 1..MaxSnapshot : CallerRemoves(i)
  \/ \E i \in 1..MaxSnapshot : CallerSetsContent(i)

SpecStore == Init /\ [][NextStore]_vars

---------------------------------------------------------------------------
(* _inject_tool_instructions on its own: any registry, any message list,   *)
(* applied again to the same list or to the list it returned.              *)

\* the message lists given to _inject_tool_instructions have at most this
\* many messages
MaxInput == 3
\* _inject_tool_instructions is applied at most this many times
MaxInject == 2

\* what ToolManager.tools can hold when the agent is constructed
Registries == SUBSET {"add_numbers", "to_uppercase"}

\* the messages a list can hold before any injection
InputMessages ==
  { SystemMsg(DefaultSystemPrompt),
    Msg("user", <<"what is 2+3?">>, Absent, AbsentId, <<>>),
    Msg("assistant", <<"5">>, Absent, AbsentId, <<>>),
    Msg("tool", <<"5">>, "add_numbers", CallId(1), <<>>) }

InputLists == UNION {[1..n -> InputMessages] : n \in 0..MaxInput}

InitInject ==
  /\ AgentConstructed
  /\ LoadSettled
  /\ sink_faulty = FALSE
  /\ tools \in Registries
  /\ inject_input \in InputLists
  /\ inject_output = <<>>
  /\ inject_count = 0

\* _inject_tool_instructions(messages) on the list it was last given
InjectSame ==
  /\ inject_count < MaxInject
  /\ inject_output' = inject_tool_instructions(tools, inject_input)
  /\ inject_count' = inject_count + 1
  /\ UNCHANGED <<inject_input, agentVars, loadVars>>

\* _inject_tool_instructions(messages) on the list it last returned
InjectOutput ==
  /\ inject_count >= 1
  /\ inject_count < MaxInject
  /\ inject_input' = inject_output
  /\ inject_output' = inject_tool_instructions(tools, inject_output)
  /\ inject_count' = inject_count + 1
  /\ UNCHANGED <<agentVars, loadVars>>

NextInject == InjectSame \/ InjectOutput

SpecInject == InitInject /\ [][NextInject]_vars

---------------------------------------------------------------------------
(* The agent with any registry, the empty one included.                    *)

InitAnyTools ==
  /\ AgentConstructed
  /\ InjectUnused
  /\ LoadSettled
  /\ sink_faulty = FALSE
  /\ tools \in {{}, LoadedTools}

SpecAnyTools == InitAnyTools /\ [][Next]_vars

---------------------------------------------------------------------------
(* The agent whose writes to conversation.log can fail.                    *)

InitLog ==
  /\ AgentConstructed
  /\ InjectUnused
  /\ LoadSettled
  /\ sink_faulty = TRUE
  /\ tools = LoadedTools

SpecLog == InitLog /\ [][Next]_vars

---------------------------------------------------------------------------
(* ToolManager.__init__: discovery over any list of files, then dispatch.  *)

InitTools ==
  /\ AgentConstructed
  /\ InjectUnused
  /\ sink_faulty = FALSE
  /\ tools = {}
  /\ files \in FileLists
  /\ file_idx = 1
  /\ load_pc = "loading"
  /\ tool_table = EmptyTable
  /\ tool_schemas = <<>>
  /\ warnings = {}
  /\ dispatched = "none"

NextTools ==
  \/ LoadToolFromFile
  \/ LoadToolsReturn
  \/ \E n \in ToolNames : ExecuteTool(n)

SpecTools == InitTools /\ [][NextTools]_vars

---------------------------------------------------------------------------
(* Vocabulary of the properties.                                           *)

Running == pc \in {"loop", "await", "tools"}

\* the latest reply of the current chat call is an assistant message
Replied == response.role = "assistant"

\* the reply carries at least one tool call / only parseable arguments
CarriesCalls(r) == ~r.tool_calls_none /\ r.tool_calls # <<>>
Parseable(r) ==
  \A i \in 1..Len(r.tool_calls) : r.tool_calls[i].arguments # BadArgs

\* the position of the last assistant message of the store, 0 if none
LastAssistant ==
  IF \E i \in 1..Len(messages) : messages[i].role = "assistant"
    THEN CHOOSE i \in 1..Len(messages) :
           /\ messages[i].role = "assistant"
           /\ \A j \in (i + 1)..Len(messages) : messages[j].role # "assistant"
    ELSE 0

\* the calls of the latest reply that process_tool_calls has gone through
CallsDone == IF pc = "tools" THEN call_idx - 1 ELSE Len(response.tool_calls)

IsErrorContent(t) ==
  t # <<>> /\ t[1] \in {"Tool execution failed: ", "Error executing tool "}

IsChatError(t) == t # <<>> /\ t[1] = "Error communicating with OpenRouter: "

\* the texts a chat call returns as a normal outcome
NormalAnswers == ReplyTexts \cup {EmptyText, MaxIterationsText}

---------------------------------------------------------------------------
\* C1: a chat call whose every reply carried tool calls with parseable
\* arguments ends only by the iteration cap: when it has ended it has sent
\* exactly max_tool_iterations requests and returns the fixed sentinel; while
\* it runs it has sent at most that many, and the agent's own next step is
\* always possible, so it cannot loop forever.
C1_CapEndsToolLoop ==
  /\ (pc = "done" /\ only_tool_replies) =>
        /\ requests = 5
        /\ final_response_text = <<"Tool execution loop exceeded maximum iterations.">>
  /\ (Running /\ only_tool_replies) =>
        /\ requests <= 5
        /\ iterations <= 5
        /\ pc \in {"loop", "tools"} =>
             ENABLED (LoopStep \/ ProcessToolCall \/ ProcessToolCallsReturn)

C1_Witness ==
  /\ pc = "done"
  /\ only_tool_replies
  /\ requests = 5
  /\ final_response_text = MaxIterationsText

\* C2: a chat call never sends more than max_tool_iterations requests to the
\* completion collaborator, whatever the collaborator and the tools do.
C2_RequestsBounded == requests <= 5 /\ iterations <= 5

C2_Witness ==
  /\ pc = "await"
  /\ requests = 5
  /\ \E i \in 1..Len(messages) : IsErrorContent(messages[i].content)

\* C3: once the latest reply of a call is an assistant message without tool
\* calls, the call has ended (no request is pending or will be sent), its
\* result is the reply's content, the empty text for a null content, and the
\* store ends with exactly that assistant message, with no tool result after.
C3_PlainReplyEndsChat ==
  (Replied /\ ~CarriesCalls(response)) =>
     /\ pc = "done"
     /\ final_response_text =
          (IF response.content = NoneText THEN EmptyText ELSE response.content)
     /\ messages[Len(messages)] =
          Msg("assistant", response.content, Absent, AbsentId, <<>>)

C3_Witness ==
  /\ pc = "done"
  /\ Replied /\ ~CarriesCalls(response)
  /\ response.content = NoneText
  /\ final_response_text = EmptyText
  /\ requests = 2

FailsInDispatch(tool_call) ==
  \/ tool_call.name \notin {"add_numbers"}
  \/ tool_call.arguments = PartialArgs

C5_Step ==
  (/\ pc = "tools"
   /\ call_idx <= Len(response.tool_calls)
   /\ response.tool_calls[call_idx].arguments # BadArgs
   /\ FailsInDispatch(response.tool_calls[call_idx]))
  => /\ Len(messages') = Len(messages) + 1
     /\ SubSeq(messages', 1, Len(messages)) = messages
     /\ messages'[Len(messages')].role = "tool"
     /\ messages'[Len(messages')].tool_call_id = response.tool_calls[call_idx].id
     /\ IsErrorContent(messages'[Len(messages')].content)
     /\ pc' = "tools"
     /\ call_idx' = call_idx + 1
     /\ executed_tool'

\* what does hold of a call to an unregistered tool, or one whose handler
\* raises: it appends exactly one tool-result message with that call's id
\* and an error text as content; chat neither raises nor ends;
\* process_tool_calls goes on to the next call, and after the last call it
\* returns True, so the loop goes on to its next test.
C5_ToolErrorsAreResults ==
  /\ [][C5_Step]_vars
  /\ [](pc # "raised")
  /\ []((pc = "tools" /\ call_idx > Len(response.tool_calls)) => executed_tool)
  /\ [][(pc = "tools" /\ call_idx > Len(response.tool_calls)) => pc' = "loop"]_vars

\* C5: a call to an unregistered tool, or one whose handler raises, appends
\* exactly one tool-result message with that call's id and an error text as
\* content; chat neither raises nor ends: the remaining calls are gone
\* through, and when the results of a message end with such an error and
\* the cap is not reached, the next request is sent.
C5_ToolErrorsKeepLoopGoing ==
  /\ [][C5_Step]_vars
  /\ [](pc # "raised")
  /\ [][(pc = "tools" /\ call_idx > Len(response.tool_calls)) => pc' = "loop"]_vars
  /\ [][(/\ pc = "loop"
         /\ iterations \in 1..4
         /\ messages[Len(messages)].role = "tool"
         /\ IsErrorContent(messages[Len(messages)].content))
        => /\ pc' = "await"
           /\ requests' = requests + 1]_vars

C5_Witness ==
  /\ pc = "await"
  /\ requests = 3
  /\ Len(messages) = 6
  /\ messages[4].content = <<"Tool execution failed: ", "Tool ", "nope", " not found">>
  /\ messages[6].content = <<"Error executing tool ", "add_numbers", ": ">> \o HandlerErrorText

C6_Step ==
  (/\ pc = "tools"
   /\ call_idx <= Len(response.tool_calls)
   /\ response.tool_calls[call_idx].arguments = BadArgs)
  => /\ messages' = messages
     /\ pc' = "done"
     /\ IsChatError(final_response_text')
     /\ final_response_text' \notin NormalAnswers
     /\ requests' = requests

\* C6: when the arguments of the call at hand are not valid JSON, chat ends
\* at once: no tool-result message is appended for that call, no further
\* request is sent, and the returned text is the error text of chat, which
\* no normal answer is.
C6_MalformedArgumentsEndChat == [][C6_Step]_vars

C6_Witness ==
  /\ pc = "done"
  /\ Len(response.tool_calls) = 2
  /\ call_idx = 2
  /\ response.tool_calls[2].arguments = BadArgs
  /\ final_response_text = ErrorPrefix \o JsonErrorText
  /\ messages[Len(messages)].role = "tool"

NotInstruction(msg) == ~(msg.role = "system" /\ msg.name = "tool_instructions")

\* C7: when the collaborator fails on a request, chat ends in that step and
\* returns the error text of chat; no request follows in this call; the
\* store is not touched, and it is exactly what was sent with the failing
\* request (the instruction message apart, which is never stored).
C7_CompletionFailureEndsChat ==
  /\ [][ModelFails =>
          /\ pc' = "done"
          /\ final_response_text' =
               <<"Error communicating with OpenRouter: ">> \o ApiErrorText
          /\ messages' = messages
          /\ requests' = requests]_vars
  /\ []((pc = "done" /\ final_response_text = ErrorPrefix \o ApiErrorText) =>
          SelectSeq(messages_to_send, NotInstruction) = messages)

C7_Witness ==
  /\ pc = "done"
  /\ final_response_text = ErrorPrefix \o ApiErrorText
  /\ requests = 2
  /\ Len(messages) = 4
  /\ messages[Len(messages)].role = "tool"

\* C8: chat never raises to its caller: whatever fails inside it (the
\* request, an unknown tool, a handler, the parsing of the arguments), the
\* call ends by returning a text.
C8_ChatNeverRaises ==
  /\ pc # "raised"
  /\ pc = "done" =>
       /\ final_response_text \in Seq(STRING)
       /\ final_response_text # <<>>

C8_Witness ==
  /\ pc = "done"
  /\ IsChatError(final_response_text)
  /\ call_idx = 1
  /\ response.tool_calls[1].arguments = BadArgs
  /\ Len(response.tool_calls) = 1

\* C9: each of add_user_message, add_assistant_message and add_tool_result
\* appends exactly one message and leaves the earlier ones as they were and
\* where they were; a step that is neither an append nor a reset leaves the
\* length alone: so between two resets the length never decreases and grows
\* by the number of appends.
C9_AppendOnly ==
  /\ [][Appends =>
          /\ Len(messages') = Len(messages) + 1
          /\ SubSeq(messages', 1, Len(messages)) = messages]_vars
  /\ [][(~Appends /\ ~Resets) => Len(messages') = Len(messages)]_vars
  /\ [][(~Resets) => Len(messages') >= Len(messages)]_vars

C9_Witness ==
  /\ Len(messages) = 3
  /\ messages[2].role = "tool"
  /\ messages[3].role = "assistant"
  /\ messages[3].tool_calls # <<>>

\* C10: no change a caller makes to a list it got from get_messages()
\* (appending, deleting, assigning a field of one of its messages) changes
\* what the store holds.
C10_SnapshotIndependent == [][CallerChanges => messages' = messages]_vars

\* what does hold of the copy: changing the list itself (appending,
\* deleting) leaves the store alone
C10_ListIndependent ==
  [][(CallerAppends \/ \E i \in 1..MaxSnapshot : CallerRemoves(i))
       => messages' = messages]_vars

---------------------------------------------------------------------------
\* the number of messages of a role in a list
RoleCount(msgs, role) ==
  Cardinality({i \in 1..Len(msgs) : msgs[i].role = role})

\* C11: a chat call appends the user's text once, as a user message at the
\* end of the store, before it sends anything (no request of the call has
\* been counted yet); no later step of the call adds a user message, and the
\* first request of the call ends with that user message.
C11_UserTextOnce ==
  /\ [][\A u \in UserTexts :
          ChatBegin(u) =>
            /\ messages' =
                 Append(messages,
                        [role |-> "user", content |-> u, name |-> "<absent>",
                         tool_call_id |-> <<"<absent>">>, tool_calls |-> <<>>])
            /\ requests' = 0]_vars
  /\ [][Running =>
          RoleCount(messages', "user") = RoleCount(messages, "user")]_vars
  /\ [][(pc = "loop" /\ pc' = "await" /\ requests' = 1) =>
          /\ messages[Len(messages)].role = "user"
          /\ messages_to_send'[Len(messages_to_send')] =
               messages[Len(messages)]]_vars

C11_Witness ==
  /\ pc = "await"
  /\ requests = 3
  /\ RoleCount(messages, "user") = 2
  /\ messages[Len(messages)].role = "tool"

\* the message the store keeps of a reply
Kept(r) ==
  [role |-> r.role, content |-> r.content, name |-> "<absent>",
   tool_call_id |-> <<"<absent>">>,
   tool_calls |-> IF r.tool_calls_none THEN <<>> ELSE r.tool_calls]

\* C12: the step that receives a reply appends that reply, and nothing
\* else, to the store, whether or not it has text or tool calls, and when
\* it has tool calls none of them has been gone through yet; no other step
\* of a chat call adds an assistant message: so a chat call adds as many
\* assistant messages as it had successful requests.
C12_RepliesStoredOnce ==
  /\ [][\A r \in Replies(messages) :
          ModelReplies(r) =>
            /\ messages' = Append(messages, Kept(r))
            /\ pc' = "tools" => call_idx' = 1]_vars
  /\ [][(~ \E r \in Replies(messages) : ModelReplies(r)) =>
          \/ RoleCount(messages', "assistant") = RoleCount(messages, "assistant")
          \/ Len(messages') = 1]_vars

C12_Witness ==
  /\ pc = "done"
  /\ requests = 2
  /\ Len(messages) = 5
  /\ messages[3].role = "assistant"
  /\ messages[3].tool_calls # <<>>
  /\ messages[5].role = "assistant"
  /\ messages[5].content = <<"<None>">>
  /\ messages[5].tool_calls = <<>>

\* C13: set_system_prompt(p) leaves the store with one message, the system
\* message whose content is p; reset_conversation() leaves it with one
\* message, the system message whose content is the system prompt, which it
\* does not change; and only set_system_prompt changes the system prompt, so
\* that prompt is the one most recently set.
C13_ResetToSystemPrompt ==
  /\ [][\A p \in Prompts :
          SetSystemPrompt(p) =>
            /\ system_prompt' = p
            /\ messages' =
                 <<[role |-> "system", content |-> p, name |-> "<absent>",
                    tool_call_id |-> <<"<absent>">>, tool_calls |-> <<>>]>>]_vars
  /\ [][ResetConversation =>
          /\ system_prompt' = system_prompt
          /\ messages' =
               <<[role |-> "system", content |-> system_prompt,
                  name |-> "<absent>", tool_call_id |-> <<"<absent>">>,
                  tool_calls |-> <<>>]>>]_vars
  /\ [][system_prompt' # system_prompt =>
          \E p \in Prompts : SetSystemPrompt(p)]_vars

C13_Witness ==
  /\ pc = "idle"
  /\ system_prompt = <<"Be terse.">>
  /\ Len(messages) = 1
  /\ messages[1].content = <<"Be terse.">>

\* C14: the store is never empty, and its first message is the system
\* message whose content is the current system prompt.
C14_SystemMessageFirst ==
  /\ Len(messages) >= 1
  /\ messages[1] =
       [role |-> "system", content |-> system_prompt, name |-> "<absent>",
        tool_call_id |-> <<"<absent>">>, tool_calls |-> <<>>]

C14_Witness ==
  /\ pc = "done"
  /\ IsChatError(final_response_text)
  /\ system_prompt = <<"Be terse.">>
  /\ Len(messages) = 4
  /\ messages[1].content = <<"Be terse.">>

\* the number of tool-instruction messages of a list
InstructionCount(msgs) ==
  Cardinality({i \in 1..Len(msgs) :
                 msgs[i].role = "system" /\ msgs[i].name = "tool_instructions"})

\* C15 as stated: whatever the registry, the list _inject_tool_instructions
\* returns, applied once or again, holds exactly one instruction message.
C15_ExactlyOneWhateverRegistry ==
  inject_count >= 1 => InstructionCount(inject_output) = 1

\* C15: applied again to the same list or to the list it returned,
\* _inject_tool_instructions returns what it returned the first time; that
\* list holds exactly one instruction message when a tool is registered and
\* none when no tool is registered.
C15_InjectIdempotent ==
  /\ [](inject_count >= 1 =>
          InstructionCount(inject_output) = IF tools = {} THEN 0 ELSE 1)
  /\ [][inject_count >= 1 => inject_output' = inject_output]_vars

C15_Witness ==
  /\ inject_count = 2
  /\ tools = {"add_numbers", "to_uppercase"}
  /\ inject_input = inject_output
  /\ Len(inject_output) = 4
  /\ InstructionCount(inject_output) = 1

\* C16: the message list of every request of every chat call holds exactly
\* one instruction message when a tool is registered, and none when no tool
\* is registered.
C16_OneInstructionPerRequest ==
  (pc = "await" \/ messages_to_send # <<>>) =>
    InstructionCount(messages_to_send) = IF tools = {} THEN 0 ELSE 1

C16_Witness ==
  /\ pc = "await"
  /\ requests = 5
  /\ tools # {}
  /\ Len(messages_to_send) = 11
  /\ InstructionCount(messages_to_send) = 1

\* C17: with a tool registered and no instruction message in the list it is
\* given, _inject_tool_instructions leaves that list as it is and returns
\* it with one instruction message put right after its first system-role
\* message, or in front when it has none: the messages before that place
\* and after it are those of the list, in their order.
C17_InsertedAfterFirstSystem ==
  [][(InjectSame /\ tools # {} /\ InstructionCount(inject_input) = 0) =>
       /\ inject_input' = inject_input
       /\ Len(inject_output') = Len(inject_input) + 1
       /\ \E k \in 0..Len(inject_input) :
            /\ \A j \in 1..k : (inject_input[j].role = "system") <=> (j = k)
            /\ k = 0 => \A j \in 1..Len(inject_input) :
                          inject_input[j].role # "system"
            /\ inject_output'[k + 1].role = "system"
            /\ inject_output'[k + 1].name = "tool_instructions"
            /\ \A j \in 1..k : inject_output'[j] = inject_input[j]
            /\ \A j \in (k + 1)..Len(inject_input) :
                 inject_output'[j + 1] = inject_input[j]]_vars

C17_Witness ==
  /\ inject_count = 1
  /\ tools = {"add_numbers"}
  /\ Len(inject_input) = 3
  /\ inject_input[1].role = "user"
  /\ inject_input[2].role = "system"
  /\ inject_input[3].role = "system"
  /\ Len(inject_output) = 4
  /\ inject_output[3].name = "tool_instructions"
  /\ inject_output[4] = inject_input[3]

\* C18: a write to conversation.log that fails changes nothing: whenever
\* the loop test passes on a store that _log_request can print, the request
\* is sent; every call with parseable arguments gets its result and
\* process_tool_calls goes on to the next one; and chat never returns the
\* error of a write.
C18_LogFailureHarmless ==
  /\ [][(/\ pc = "loop"
         /\ iterations < 5
         /\ \A i \in 1..Len(messages) : messages[i].content # <<"<None>">>)
        => /\ pc' = "await"
           /\ requests' = requests + 1]_vars
  /\ [][(/\ pc = "tools"
         /\ call_idx <= Len(response.tool_calls)
         /\ response.tool_calls[call_idx].arguments # BadArgs)
        => /\ pc' = "tools"
           /\ call_idx' = call_idx + 1
           /\ Len(messages') = Len(messages) + 1]_vars
  /\ [](pc = "done" =>
          final_response_text #
            <<"Error communicating with OpenRouter: ",
              "[Errno 28] No space left on device">>)

\* the files that are executed without error and define a tool named n
Providers(n) ==
  {i \in 1..Len(files) :
     /\ files[i].kind = "tool"
     /\ \E f \in files[i].module : f.name = n /\ f.tool_schema}

\* the function object named n of the last of these files
LastProvided(n) ==
  LET last == CHOOSE i \in Providers(n) : \A j \in Providers(n) : j <= i
  IN (CHOOSE f \in files[last].module : f.name = n).id

\* C19: once load_tools has returned, a name that tool files define holds
\* one definition in the registry, that of the last file defining it: the
\* dispatch table maps the name to the function object of that file, the
\* schema list holds one schema of that name, the one of that function, and
\* execute_tool calls that function.
C19_LastDefinitionOnly ==
  load_pc = "returned" =>
    /\ \A n \in {"add_numbers", "to_uppercase"} :
         Providers(n) # {} =>
           /\ tool_table[n] = LastProvided(n)
           /\ \E j \in 1..Len(tool_schemas) :
                /\ tool_schemas[j] = [name |-> n, function |-> LastProvided(n)]
                /\ \A k \in 1..Len(tool_schemas) :
                     tool_schemas[k].name = n => k = j
    /\ dispatched \in {"none", "ValueError"}
                      \cup {LastProvided(n) : n \in {m \in {"add_numbers", "to_uppercase"} :
                                                     Providers(m) # {}}}

\* what does hold of a name defined twice: the dispatch table maps it to
\* the function object of the last file defining it, and that is the one
\* execute_tool calls
C19_LastHandlerWins ==
  load_pc = "returned" =>
    /\ \A n \in {"add_numbers", "to_uppercase"} :
         Providers(n) # {} => tool_table[n] = LastProvided(n)
    /\ dispatched \in {"none", "ValueError"}
                      \cup {LastProvided(n) : n \in {m \in {"add_numbers", "to_uppercase"} :
                                                     Providers(m) # {}}}

\* C20: load_tools never raises; when it has returned, the files that
\* failed are those a warning was printed for, every function with
\* tool_schema of every other file that is not skipped for its name is in
\* the dispatch table under its name and has its schema in the schema list,
\* and whatever the dispatch table holds is a function with tool_schema of
\* such a file.
C20_BadFilesAreSkipped ==
  /\ load_pc # "raised"
  /\ load_pc = "returned" =>
       /\ warnings = {i \in 1..Len(files) : files[i].kind = "broken"}
       /\ \A i \in 1..Len(files) :
            files[i].kind = "tool" =>
              \A f \in files[i].module :
                f.tool_schema =>
                  /\ tool_table[f.name] # "<missing>"
                  /\ \E j \in 1..Len(tool_schemas) :
                       tool_schemas[j] = [name |-> f.name, function |-> f.id]
       /\ \A n \in DOMAIN tool_table :
            tool_table[n] # "<missing>" =>
              \E i \in 1..Len(files) :
                /\ files[i].kind = "tool"
                /\ \E f \in files[i].module :
                     f.tool_schema /\ f.name = n /\ f.id = tool_table[n]
       /\ tool_table["tool"] = "<missing>"

C20_Witness ==
  /\ load_pc = "returned"
  /\ Len(files) = 2
  /\ files[1].kind = "broken"
  /\ files[1].module # {}
  /\ files[2].kind = "tool"
  /\ Cardinality(files[2].module) = 2
  /\ warnings = {1}
  /\ tool_table["to_uppercase"] = "utility_tools.to_uppercase"
  /\ tool_table["add_numbers"] = "<missing>"
  /\ Len(tool_schemas) = 1

\* C21: a reply whose tool_calls is None or an empty list ends the chat in
\* the step that receives it, in the same way for both: the result is the
\* reply's content (the empty text for None), the store gets the assistant
\* message without tool calls and nothing else, and no request is counted;
\* and whenever process_tool_calls has gone through the calls of a reply,
\* which then has at least one, it returns True and the loop goes back to
\* its test instead of ending, and below the cap enters its next iteration.
C21_EmptyCallsArePlain ==
  /\ [][\A r \in Replies(messages) :
          (ModelReplies(r) /\ r.tool_calls = <<>>) =>
            /\ pc' = "done"
            /\ final_response_text' =
                 (IF r.content = <<"<None>">> THEN <<"">> ELSE r.content)
            /\ messages' =
                 Append(messages,
                        [role |-> "assistant", content |-> r.content,
                         name |-> "<absent>", tool_call_id |-> <<"<absent>">>,
                         tool_calls |-> <<>>])
            /\ requests' = requests]_vars
  /\ []((pc = "done" /\ Replied /\ response.tool_calls = <<>>) =>
          messages[Len(messages)].role = "assistant")
  /\ []((pc = "tools" /\ call_idx > Len(response.tool_calls)) =>
          /\ Len(response.tool_calls) >= 1
          /\ executed_tool)
  /\ [][(pc = "tools" /\ call_idx > Len(response.tool_calls)) =>
          /\ pc' = "loop"
          /\ final_response_text' = final_response_text]_vars
  /\ [][(pc = "loop" /\ iterations \in 1..4) =>
          iterations' = iterations + 1]_vars

C21_Witness ==
  /\ pc = "done"
  /\ requests = 2
  /\ Replied
  /\ ~response.tool_calls_none
  /\ response.tool_calls = <<>>
  /\ response.content = <<"5">>
  /\ final_response_text = <<"5">>
  /\ Len(messages) = 5
  /\ messages[4].role = "tool"

\* the position of the first assistant or user message after position i of
\* a list, one past its end when there is none
NextTurn(msgs, i) ==
  IF \E j \in (i + 1)..Len(msgs) : msgs[j].role \in {"assistant", "user"}
    THEN CHOOSE j \in (i + 1)..Len(msgs) :
           /\ msgs[j].role \in {"assistant", "user"}
           /\ \A k \in (i + 1)..(j - 1) : msgs[k].role \notin {"assistant", "user"}
    ELSE Len(msgs) + 1

\* every tool call of every assistant message of the list has exactly one
\* tool-result message with its id before the next assistant or user message
Answered(msgs) ==
  \A i \in 1..Len(msgs) :
    msgs[i].role = "assistant" =>
      \A c \in 1..Len(msgs[i].tool_calls) :
        Cardinality({j \in (i + 1)..(NextTurn(msgs, i) - 1) :
                       /\ msgs[j].role = "tool"
                       /\ msgs[j].tool_call_id = msgs[i].tool_calls[c].id}) = 1

\* C22: in the message list of every request, of any chat call of a
\* session, every tool call of every assistant message is followed, before
\* the next assistant or user message, by exactly one tool-result message
\* with the id of the call.
C22_ToolCallsAnswered == pc = "await" => Answered(messages_to_send)

\* C23: the instruction message exists only in the list of a request: the
\* store never holds a message with role system and name
\* tool_instructions, through chat calls, prompt changes and resets; the
\* store grows only by one user, assistant or tool-result message at a
\* time; and the list of every request is the store of that moment with
\* one instruction message added.
C23_InstructionNeverStored ==
  /\ [](\A i \in 1..Len(messages) :
          ~(messages[i].role = "system" /\ messages[i].name = "tool_instructions"))
  /\ [][Len(messages') > Len(messages) =>
          /\ Len(messages') = Len(messages) + 1
          /\ SubSeq(messages', 1, Len(messages)) = messages
          /\ messages'[Len(messages')].role \in {"user", "assistant", "tool"}]_vars
  /\ [](pc = "await" =>
          /\ Len(messages_to_send) = Len(messages) + 1
          /\ \E k \in 1..Len(messages_to_send) :
               /\ messages_to_send[k].role = "system"
               /\ messages_to_send[k].name = "tool_instructions"
               /\ \A i \in 1..Len(messages) :
                    messages[i] = messages_to_send[IF i < k THEN i ELSE i + 1])

C23_Witness ==
  /\ pc = "await"
  /\ requests = 2
  /\ Len(messages) = 5
  /\ messages[3].role = "assistant"
  /\ messages[4].role = "tool"
  /\ messages[5].role = "tool"
  /\ Len(messages_to_send) = 6
  /\ messages_to_send[2].name = "tool_instructions"
  /\ messages_to_send[6] = messages[5]

\* C24: once load_tools has returned, schema list and dispatch table agree:
\* every name of the dispatch table has exactly one schema in the schema
\* list, no two schemas of the list carry the same name, and every schema
\* of the list carries a name the dispatch table holds, also when two tool
\* files define a name or one function is visible in two tool files.
C24_SchemasMatchDispatch ==
  load_pc = "returned" =>
    /\ \A n \in {"add_numbers", "to_uppercase", "tool"} :
         tool_table[n] # "<missing>" =>
           Cardinality({j \in 1..Len(tool_schemas) : tool_schemas[j].name = n}) = 1
    /\ \A j, k \in 1..Len(tool_schemas) :
         tool_schemas[j].name = tool_schemas[k].name => j = k
    /\ \A j \in 1..Len(tool_schemas) :
         tool_table[tool_schemas[j].name] # "<missing>"

====
